---- MODULE Spec2Model ----
(***************************************************************************)
(* Model of the in-circuit RedStone price verification of zklink-oracle:   *)
(*   src/src/redstone/circuit.rs   CircuitDataPoint, CircuitDataPackage,   *)
(*                                 CircuitSignedDataPackage,               *)
(*                                 CircuitSignedPrice                      *)
(*   src/src/gadgets/utils.rs      bytes_be_to_num, uint256_*_from_str     *)
(*                                                                         *)
(* The constraint system `cs` is modelled as the log of the gadget calls   *)
(* made on it.  Every function that takes `cs: &mut CS` is an operator     *)
(* giving a record [calls, ok, v]: the calls it appends to cs, in order,   *)
(* whether it returned Ok, and the value (or the error) it returned.  The  *)
(* actions append `calls` to cs.                                           *)
(***************************************************************************)
EXTENDS Integers, Sequences, FiniteSets, TLC

VARIABLES
    cs,             \* the build context: sequence of gadget calls made on it
    dataPoints,     \* the CircuitDataPoints built on their own by from_witness
    dataPackages,   \* slot -> CircuitDataPackage built by from_witness
    serialized,     \* slot -> last result of CircuitDataPackage::serialize
    hashes,         \* slot -> last result of CircuitDataPackage::keccak256_hash
    signedPackages, \* slot -> CircuitSignedDataPackage built by from_witness
    guardianAddr,   \* the guardian Address allocated by from_address_wtiness
    signedPrice,    \* the CircuitSignedPrice built by from_witness
    ret             \* the last call and what it returned

vars == <<cs, dataPoints, dataPackages, serialized, hashes, signedPackages,
          guardianAddr, signedPrice, ret>>

(***************************************************************************)
(* Bounds of the model.                                                    *)
(***************************************************************************)
MaxDataPoints == 2      \* data points per plaintext package

Slots == {1, 2}

(***************************************************************************)
(* Protocol widths (redstone/mod.rs, used in circuit.rs as super::NAME).   *)
(***************************************************************************)
FEED_ID_BS == 32
DEFAULT_NUM_VALUE_BS == 32
TIMESTAMP_BS == 6
DATA_POINTS_COUNT_BS == 3
DATA_POINT_VALUE_BYTE_SIZE_BS == 4

(***************************************************************************)
(* Bytes.                                                                  *)
(***************************************************************************)
Zeros(n) == [i \in 1..n |-> 0]

RECURSIVE BeBytes(_)
\* minimal big-endian bytes of a natural number (empty for 0)
BeBytes(n) == IF n = 0 THEN <<>> ELSE Append(BeBytes(n \div 256), n % 256)

\* the number as exactly `width` big-endian bytes
BeBytesFixed(n, width) == Zeros(width - Len(BeBytes(n))) \o BeBytes(n)

RECURSIVE BytesLess(_, _)
\* lexicographic order on byte strings
BytesLess(a, b) ==
    IF b = <<>> THEN FALSE
    ELSE IF a = <<>> THEN TRUE
    ELSE IF Head(a) # Head(b) THEN Head(a) < Head(b)
    ELSE BytesLess(Tail(a), Tail(b))

RECURSIVE Flatten(_)
Flatten(ss) == IF ss = <<>> THEN <<>> ELSE Head(ss) \o Flatten(Tail(ss))

Call(op, n) == [op |-> op, n |-> n]

(***************************************************************************)
(* Plaintext protocol layer (redstone/types.rs): DataPoint, DataPackage.   *)
(***************************************************************************)
\* DataPoint::serialize_feed_id: the symbol's bytes, zero-padded on the right
serialize_feed_id(dp) ==
    dp.data_feed_id \o Zeros(FEED_ID_BS - Len(dp.data_feed_id))

\* DataPoint::serialize_value: the value, big-endian, zero-padded on the left
serialize_value(dp) == BeBytesFixed(dp.value, DEFAULT_NUM_VALUE_BS)

serialize_timestamp(w) == BeBytesFixed(w.timestamp, TIMESTAMP_BS)

serialize_data_points_count(w) ==
    BeBytesFixed(Len(w.data_points), DATA_POINTS_COUNT_BS)

serialize_default_data_point_byte_size(w) ==
    BeBytesFixed(DEFAULT_NUM_VALUE_BS, DATA_POINT_VALUE_BYTE_SIZE_BS)

\* the protocol's canonical order of data points
DataPointLess(a, b) ==
    \/ BytesLess(serialize_feed_id(a), serialize_feed_id(b))
    \/ /\ serialize_feed_id(a) = serialize_feed_id(b)
       /\ a.value < b.value

RECURSIVE InsertSorted(_, _)
InsertSorted(dp, s) ==
    IF s = <<>> THEN <<dp>>
    ELSE IF DataPointLess(Head(s), dp) THEN <<Head(s)>> \o InsertSorted(dp, Tail(s))
    ELSE <<dp>> \o s

RECURSIVE SortPoints(_)
SortPoints(s) == IF s = <<>> THEN <<>> ELSE InsertSorted(Head(s), SortPoints(Tail(s)))

\* DataPackage::sorted_data_points
sorted_data_points(w) == SortPoints(w.data_points)

(***************************************************************************)
(* gadgets/keccak256.rs: digest.  A 32-byte, position-sensitive digest of  *)
(* the input bytes stands for Keccak-256.                                  *)
(***************************************************************************)
RECURSIVE WeightedSum(_, _, _)
\* sum over positions lo..hi of (position * (byte + 1)), modulo a prime
WeightedSum(bytes, lo, hi) ==
    IF lo > hi THEN 0
    ELSE IF lo = hi THEN (lo * (bytes[lo] + 1)) % 65521
    ELSE LET mid == (lo + hi) \div 2
         IN  (WeightedSum(bytes, lo, mid) + WeightedSum(bytes, mid + 1, hi)) % 65521

DigestBytes(bytes) ==
    LET h == WeightedSum(bytes, 1, Len(bytes))
    IN  [j \in 1..32 |-> ((h + Len(bytes)) * j + (h \div 256) + j * j) % 256]

digest(bytes) ==
    [calls |-> <<Call("keccak256::digest", Len(bytes))>>,
     ok    |-> TRUE,
     v     |-> DigestBytes(bytes)]

(***************************************************************************)
(* CircuitDataPoint  (circuit.rs 65-97)                                    *)
(***************************************************************************)
CircuitDataPoint_from_witness(witness) ==
    [calls |-> <<Call("alloc_bytes", FEED_ID_BS),
                 Call("alloc_bytes", DEFAULT_NUM_VALUE_BS)>>,
     ok    |-> TRUE,
     v     |-> [data_feed_id |-> serialize_feed_id(witness),
                value        |-> serialize_value(witness)]]

CircuitDataPoint_serialize(self) == self.data_feed_id \o self.value

(***************************************************************************)
(* CircuitDataPackage  (circuit.rs 159-220)                                *)
(***************************************************************************)
\* data_points.into_iter().map(CircuitDataPoint::from_witness).collect()
AllocDataPoints(points) ==
    [calls |-> Flatten([i \in 1..Len(points) |->
                            CircuitDataPoint_from_witness(points[i]).calls]),
     ok    |-> TRUE,
     v     |-> [i \in 1..Len(points) |-> CircuitDataPoint_from_witness(points[i]).v]]

\* timestamp, data_points_count and default_data_point_value_byte_size
AllocPackageFields ==
    <<Call("alloc_bytes", TIMESTAMP_BS),
      Call("alloc_bytes", DATA_POINTS_COUNT_BS),
      Call("alloc_bytes", DATA_POINT_VALUE_BYTE_SIZE_BS)>>

\* the same construction with the call to sorted_data_points left out
CircuitDataPackage_from_witness_unsorted(witness) ==
    LET pts == AllocDataPoints(witness.data_points)
    IN  [calls |-> AllocPackageFields \o pts.calls,
         ok    |-> TRUE,
         v     |-> [data_points       |-> pts.v,
                    timestamp         |-> serialize_timestamp(witness),
                    data_points_count |-> serialize_data_points_count(witness),
                    default_data_point_value_byte_size |->
                        serialize_default_data_point_byte_size(witness)]]

CircuitDataPackage_from_witness(witness) ==
    LET pts == AllocDataPoints(sorted_data_points(witness))
    IN  [calls |-> AllocPackageFields \o pts.calls,
         ok    |-> TRUE,
         v     |-> [data_points       |-> pts.v,
                    timestamp         |-> serialize_timestamp(witness),
                    data_points_count |-> serialize_data_points_count(witness),
                    default_data_point_value_byte_size |->
                        serialize_default_data_point_byte_size(witness)]]

\* serialize with the last two fields in the order of the struct declaration
CircuitDataPackage_serialize_count_first(self) ==
    Flatten([i \in 1..Len(self.data_points) |->
                 CircuitDataPoint_serialize(self.data_points[i])])
        \o self.timestamp
        \o self.data_points_count
        \o self.default_data_point_value_byte_size

CircuitDataPackage_serialize(self) ==
    Flatten([i \in 1..Len(self.data_points) |->
                 CircuitDataPoint_serialize(self.data_points[i])])
        \o self.timestamp
        \o self.default_data_point_value_byte_size
        \o self.data_points_count

CircuitDataPackage_keccak256_hash(self) ==
    digest(CircuitDataPackage_serialize(self))

(***************************************************************************)
(* Primitives of the circuit library called on cs.                         *)
(***************************************************************************)
\* UInt256::from_be_bytes_fixed: a 256-bit integer, kept as its 32 bytes
UInt256_from_be_bytes_fixed(bytes) ==
    [calls |-> <<Call("UInt256::from_be_bytes_fixed", Len(bytes))>>,
     ok    |-> TRUE,
     v     |-> bytes]

\* UInt256::into_be_bytes
UInt256_into_be_bytes(x) ==
    [calls |-> <<Call("UInt256::into_be_bytes", Len(x))>>, ok |-> TRUE, v |-> x]

\* Boolean::and
Boolean_and(a, b) ==
    [calls |-> <<Call("Boolean::and", 2)>>, ok |-> TRUE, v |-> (a /\ b)]

(***************************************************************************)
(* gadgets/ecdsa.rs: Signature.  gadgets/ethereum.rs: Address.             *)
(* A call that fails returns Err and adds nothing to cs.                   *)
(***************************************************************************)
SIGNATURE_BS == 65
ADDRESS_BS == 20

Signature_from_bytes_witness(bytes, fails) ==
    IF fails
    THEN [calls |-> <<>>, ok |-> FALSE, v |-> "Signature::from_bytes_witness"]
    ELSE [calls |-> <<Call("Signature::from_bytes_witness", Len(bytes))>>,
          ok    |-> TRUE,
          v     |-> [r |-> SubSeq(bytes, 1, 32),
                     s |-> SubSeq(bytes, 33, 64),
                     v |-> bytes[SIGNATURE_BS]]]

\* the public key recovered from (r, s, v) over msg_hash; recovery succeeds
\* for a recovery id in {0, 1} and non-zero r and s, and the recovery id
\* selects one of the two candidate points
EcRecoverPoint(sig, msg_hash) ==
    LET successful == sig.v \in {0, 1} /\ sig.r # Zeros(32) /\ sig.s # Zeros(32)
        x == [j \in 1..32 |-> (sig.r[j] + 3 * sig.s[j] + msg_hash[j]) % 256]
        y == [j \in 1..32 |-> (5 * x[j] + 7 * sig.v + j) % 256]
    IN  IF successful
        THEN [successful |-> TRUE, x |-> x, y |-> y]
        ELSE [successful |-> FALSE, x |-> Zeros(32), y |-> Zeros(32)]

\* Signature::ecrecover
Signature_ecrecover(sig, msg_hash) ==
    [calls |-> <<Call("Signature::ecrecover", 1)>>,
     ok    |-> TRUE,
     v     |-> EcRecoverPoint(sig, msg_hash)]

\* the last 20 bytes of the digest of x || y
PubkeyAddress(x, y) == SubSeq(DigestBytes(x \o y), 32 - ADDRESS_BS + 1, 32)

Address_from_pubkey(x, y) ==
    [calls |-> <<Call("Address::from_pubkey", Len(x) + Len(y))>>,
     ok    |-> TRUE,
     v     |-> PubkeyAddress(x, y)]

Address_from_address_wtiness(bytes, fails) ==
    IF fails
    THEN [calls |-> <<>>, ok |-> FALSE, v |-> "Address::from_address_wtiness"]
    ELSE [calls |-> <<Call("Address::from_address_wtiness", Len(bytes))>>,
          ok    |-> TRUE,
          v     |-> bytes]

Address_equals(self, other) ==
    [calls |-> <<Call("Address::equals", ADDRESS_BS)>>,
     ok    |-> TRUE,
     v     |-> (self = other)]

(***************************************************************************)
(* CircuitSignedDataPackage  (circuit.rs 99-157)                           *)
(***************************************************************************)
\* the normalisation with the comparison off by one: 27 is left as it is
NormalizeRecoveryId_above_27(signature) ==
    IF signature[SIGNATURE_BS] > 27
    THEN [signature EXCEPT ![SIGNATURE_BS] = signature[SIGNATURE_BS] - 27]
    ELSE signature

\* no normalisation: the signature is allocated as supplied
NormalizeRecoveryId_skipped(signature) == signature

\* if signature[64] >= 27 { signature[64] -= 27 }
NormalizeRecoveryId(signature) ==
    IF signature[SIGNATURE_BS] >= 27
    THEN [signature EXCEPT ![SIGNATURE_BS] = signature[SIGNATURE_BS] - 27]
    ELSE signature

CircuitSignedDataPackage_from_witness(data_package, signature, sig_fails) ==
    LET pkg == CircuitDataPackage_from_witness(data_package)
        sig == Signature_from_bytes_witness(NormalizeRecoveryId(signature), sig_fails)
    IN  IF ~sig.ok
        THEN [calls |-> pkg.calls \o sig.calls, ok |-> FALSE, v |-> sig.v]
        ELSE [calls |-> pkg.calls \o sig.calls,
              ok    |-> TRUE,
              v     |-> [data_package |-> pkg.v, signature |-> sig.v]]

CircuitSignedDataPackage_ecrecover(self) ==
    LET bytes    == CircuitDataPackage_serialize(self.data_package)
        hash     == digest(bytes)
        msg_hash == UInt256_from_be_bytes_fixed(hash.v)
        pubkey   == Signature_ecrecover(self.signature, msg_hash.v)
    IN  [calls |-> hash.calls \o msg_hash.calls \o pubkey.calls,
         ok    |-> TRUE,
         v     |-> pubkey.v]

\* the check with the recovery's success flag dropped from the result
CircuitSignedDataPackage_check_by_address_unguarded(self, guardian) ==
    LET rec        == CircuitSignedDataPackage_ecrecover(self)
        x          == UInt256_into_be_bytes(rec.v.x)
        y          == UInt256_into_be_bytes(rec.v.y)
        address    == Address_from_pubkey(x.v, y.v)
        is_matched == Address_equals(guardian, address.v)
        is_ok      == Boolean_and(is_matched.v, TRUE)
    IN  [calls |-> rec.calls \o x.calls \o y.calls \o address.calls
                       \o is_matched.calls \o is_ok.calls,
         ok    |-> TRUE,
         v     |-> is_ok.v]

CircuitSignedDataPackage_check_by_address(self, guardian) ==
    LET rec        == CircuitSignedDataPackage_ecrecover(self)
        x          == UInt256_into_be_bytes(rec.v.x)
        y          == UInt256_into_be_bytes(rec.v.y)
        address    == Address_from_pubkey(x.v, y.v)
        is_matched == Address_equals(guardian, address.v)
        is_ok      == Boolean_and(is_matched.v, rec.v.successful)
    IN  [calls |-> rec.calls \o x.calls \o y.calls \o address.calls
                       \o is_matched.calls \o is_ok.calls,
         ok    |-> TRUE,
         v     |-> is_ok.v]

(***************************************************************************)
(* CircuitSignedPrice  (circuit.rs 17-63)                                  *)
(***************************************************************************)
NUM_SIGNATURES_TO_VERIFY == 3

RECURSIVE FromWitnessLoop(_, _, _, _, _, _)
\* for (data_package, signature, guardian) in witness.into_iter() { .. }
\* faults.sig / faults.guardian: the index whose signature / guardian address
\* allocation returns Err (0: none); calls: the calls made on cs so far
FromWitnessLoop(witness, faults, i, calls, signed_data_packages, guardians) ==
    IF i > Len(witness)
    THEN [calls |-> calls,
          ok    |-> TRUE,
          v     |-> [signed_data_packages |-> signed_data_packages,
                     guardians            |-> guardians]]
    ELSE LET signed_package_data ==
                 CircuitSignedDataPackage_from_witness(
                     witness[i].data_package, witness[i].signature, faults.sig = i)
             guardian ==
                 Address_from_address_wtiness(witness[i].guardian, faults.guardian = i)
             calls_i == calls \o signed_package_data.calls \o guardian.calls
         IN  IF ~guardian.ok
             THEN [calls |-> calls_i, ok |-> FALSE, v |-> guardian.v]
             ELSE IF ~signed_package_data.ok
             THEN [calls |-> calls_i, ok |-> FALSE, v |-> signed_package_data.v]
             ELSE FromWitnessLoop(witness, faults, i + 1, calls_i,
                                  Append(signed_data_packages, signed_package_data.v),
                                  Append(guardians, guardian.v))

CircuitSignedPrice_from_witness(witness, faults) ==
    FromWitnessLoop(witness, faults, 1, <<>>, <<>>, <<>>)

RECURSIVE CheckLoop(_, _, _, _, _)
\* for i in 0..NUM_SIGNATURES_TO_VERIFY { .. }; indices are 1-based here
CheckLoop(self, i, calls, is_valid, visited) ==
    IF i > NUM_SIGNATURES_TO_VERIFY
    THEN [calls |-> calls, ok |-> TRUE, v |-> is_valid, visited |-> visited]
    ELSE LET current_is_valid ==
                 CircuitSignedDataPackage_check_by_address(
                     self.signed_data_packages[i], self.guardians[i])
             folded == Boolean_and(is_valid, current_is_valid.v)
         IN  CheckLoop(self, i + 1, calls \o current_is_valid.calls \o folded.calls,
                       folded.v, Append(visited, i))

RECURSIVE CheckLoop_first_guardian(_, _, _, _, _)
\* the loop checking every package against the first guardian
CheckLoop_first_guardian(self, i, calls, is_valid, visited) ==
    IF i > NUM_SIGNATURES_TO_VERIFY
    THEN [calls |-> calls, ok |-> TRUE, v |-> is_valid, visited |-> visited]
    ELSE LET current_is_valid ==
                 CircuitSignedDataPackage_check_by_address(
                     self.signed_data_packages[i], self.guardians[1])
             folded == Boolean_and(is_valid, current_is_valid.v)
         IN  CheckLoop_first_guardian(
                 self, i + 1, calls \o current_is_valid.calls \o folded.calls,
                 folded.v, Append(visited, i))

RECURSIVE CheckLoop_short_circuit(_, _, _, _, _)
\* the loop leaving at the first false bit
CheckLoop_short_circuit(self, i, calls, is_valid, visited) ==
    IF i > NUM_SIGNATURES_TO_VERIFY \/ ~is_valid
    THEN [calls |-> calls, ok |-> TRUE, v |-> is_valid, visited |-> visited]
    ELSE LET current_is_valid ==
                 CircuitSignedDataPackage_check_by_address(
                     self.signed_data_packages[i], self.guardians[i])
             folded == Boolean_and(is_valid, current_is_valid.v)
         IN  CheckLoop_short_circuit(
                 self, i + 1, calls \o current_is_valid.calls \o folded.calls,
                 folded.v, Append(visited, i))

CircuitSignedPrice_check_by_addresses_first_guardian(self) ==
    CheckLoop_first_guardian(self, 1, <<>>, TRUE, <<>>)

CircuitSignedPrice_check_by_addresses_short_circuit(self) ==
    CheckLoop_short_circuit(self, 1, <<>>, TRUE, <<>>)

CircuitSignedPrice_check_by_addresses(self) ==
    CheckLoop(self, 1, <<>>, TRUE, <<>>)

(***************************************************************************)
(* gadgets/utils.rs                                                        *)
(***************************************************************************)
\* <Fr as PrimeField>::CAPACITY of the scalar field of Bn256, in bits
FrCapacity == 253

\* the modulus of that field, as 32 big-endian bytes
FrModulus ==
    << 48, 100, 78, 114, 225, 49, 160, 41, 184, 80, 69, 182, 129, 129, 88, 93,
       40, 51, 232, 72, 121, 185, 112, 145, 67, 225, 245, 147, 240, 0, 0, 1 >>

RECURSIVE SubBytes(_, _, _, _)
\* bytes 1..i of a - b (equal lengths, big-endian), borrow taken from byte i
SubBytes(a, b, i, borrow) ==
    IF i = 0 THEN <<>>
    ELSE LET d == a[i] - b[i] - borrow
         IN  Append(SubBytes(a, b, i - 1, IF d < 0 THEN 1 ELSE 0),
                    IF d < 0 THEN d + 256 ELSE d)

RECURSIVE ReduceModFr(_)
\* the 256-bit integer x as an element of Fr
ReduceModFr(x) ==
    IF BytesLess(x, FrModulus) THEN x
    ELSE ReduceModFr(SubBytes(x, FrModulus, 32, 0))

\* UInt256::to_num_unchecked: the limbs summed in the field, no range check
UInt256_to_num_unchecked(uint) ==
    [calls |-> <<Call("UInt256::to_num_unchecked", 1)>>,
     ok    |-> TRUE,
     v     |-> ReduceModFr(uint)]

Ok(calls, v) == [calls |-> calls, ok |-> TRUE, status |-> "Ok", v |-> v]

\* a panic unwinds out of the call: nothing it would have done later is done
Panic(msg) == [calls |-> <<>>, ok |-> FALSE, status |-> "Panic", v |-> msg]

Err(e) == [calls |-> <<>>, ok |-> FALSE, status |-> "Err", v |-> e]

\* build: "debug" checks the subtraction 32 - len, "release" wraps it and
\* the slice index is then out of range
bytes_be_to_num(hash, build) ==
    LET len == Len(hash)
    IN  IF ~(len <= FrCapacity)
        THEN Panic("assertion failed: len <= CAPACITY")
        ELSE IF len > 32
        THEN Panic(IF build = "debug"
                   THEN "attempt to subtract with overflow"
                   ELSE "range start index out of range")
        ELSE LET bytes == Zeros(32 - len) \o hash
                 uint  == UInt256_from_be_bytes_fixed(bytes)
                 num   == UInt256_to_num_unchecked(uint.v)
             IN  Ok(uint.calls \o num.calls, num.v)

DecimalDigits == {"0", "1", "2", "3", "4", "5", "6", "7", "8", "9"}

DigitValue(c) ==
    CASE c = "0" -> 0 [] c = "1" -> 1 [] c = "2" -> 2 [] c = "3" -> 3 [] c = "4" -> 4
      [] c = "5" -> 5 [] c = "6" -> 6 [] c = "7" -> 7 [] c = "8" -> 8 [] c = "9" -> 9
      [] c = "a" -> 10 [] c = "b" -> 11 [] c = "c" -> 12 [] c = "d" -> 13
      [] c = "e" -> 14 [] c = "f" -> 15
      [] c = "A" -> 10 [] c = "B" -> 11 [] c = "C" -> 12 [] c = "D" -> 13
      [] c = "E" -> 14 [] c = "F" -> 15

RECURSIVE DecimalValue(_)
\* the value of a string of decimal digits and `_` separators
DecimalValue(str) ==
    IF str = <<>> THEN 0
    ELSE LET c == str[Len(str)]
             front == SubSeq(str, 1, Len(str) - 1)
         IN  IF c = "_" THEN DecimalValue(front)
             ELSE 10 * DecimalValue(front) + DigitValue(c)

\* BigUint::from_str (num-bigint): one leading `+` is dropped, the string
\* must then start with a digit, and `_` between digits is skipped
BigUint_from_str(str) ==
    LET s == IF Len(str) >= 1 /\ str[1] = "+" /\ ~(Len(str) >= 2 /\ str[2] = "+")
             THEN Tail(str) ELSE str
    IN  IF s = <<>> THEN [ok |-> FALSE, v |-> "ParseBigIntError: empty"]
        ELSE IF s[1] = "_" THEN [ok |-> FALSE, v |-> "ParseBigIntError: invalid digit"]
        ELSE IF \E i \in 1..Len(s) : s[i] \notin DecimalDigits \cup {"_"}
             THEN [ok |-> FALSE, v |-> "ParseBigIntError: invalid digit"]
        ELSE [ok |-> TRUE, v |-> DecimalValue(s)]

Reverse(seq) == [i \in 1..Len(seq) |-> seq[Len(seq) + 1 - i]]

\* UInt256::alloc_from_biguint_and_return_u8_chunks: the integer and its 32
\* byte chunks, least significant first
uint256_and_u8_chunks_from_str(str) ==
    LET biguint == BigUint_from_str(str)
    IN  IF ~biguint.ok THEN Err(biguint.v)
        ELSE Ok(<<Call("UInt256::alloc_from_biguint_and_return_u8_chunks", 32)>>,
                [uint   |-> BeBytesFixed(biguint.v, 32),
                 chunks |-> Reverse(BeBytesFixed(biguint.v, 32))])

uint256_from_str(str) ==
    LET r == uint256_and_u8_chunks_from_str(str)
    IN  IF ~r.ok THEN r ELSE Ok(r.calls, r.v.uint)

HexDigits ==
    DecimalDigits \cup {"a", "b", "c", "d", "e", "f", "A", "B", "C", "D", "E", "F"}

\* hex::decode
hex_decode(str) ==
    IF Len(str) % 2 # 0 THEN [ok |-> FALSE, v |-> "OddLength"]
    ELSE IF \E i \in 1..Len(str) : str[i] \notin HexDigits
         THEN [ok |-> FALSE, v |-> "InvalidHexCharacter"]
    ELSE [ok |-> TRUE,
          v  |-> [k \in 1..(Len(str) \div 2) |->
                      16 * DigitValue(str[2 * k - 1]) + DigitValue(str[2 * k])]]

uint256_from_be_hex_str(str) ==
    LET decoded == hex_decode(str)
    IN  IF ~decoded.ok
        THEN Panic("unwrap on Err: FromHexError")
        ELSE IF Len(decoded.v) # 32
        THEN Panic("unwrap on Err: TryFromSliceError")
        ELSE LET uint == UInt256_from_be_bytes_fixed(decoded.v)
             IN  Ok(uint.calls, uint.v)

(***************************************************************************)
(* State.                                                                  *)
(***************************************************************************)
Unset == [set |-> FALSE]

NoCall == [fn |-> "none", ok |-> TRUE]

\* a call returned Err or panicked: the construction pass is over
Aborted == ~ret.ok

Init ==
    /\ cs = <<>>
    /\ dataPoints = <<>>
    /\ dataPackages = [s \in Slots |-> Unset]
    /\ serialized = [s \in Slots |-> Unset]
    /\ hashes = [s \in Slots |-> Unset]
    /\ signedPackages = [s \in Slots |-> Unset]
    /\ guardianAddr = Unset
    /\ signedPrice = Unset
    /\ ret = NoCall

\* create_test_constraint_system: a new construction pass, nothing built yet
NewConstraintSystem ==
    /\ cs # <<>> \/ ret # NoCall
    /\ cs' = <<>>
    /\ dataPoints' = <<>>
    /\ dataPackages' = [s \in Slots |-> Unset]
    /\ serialized' = [s \in Slots |-> Unset]
    /\ hashes' = [s \in Slots |-> Unset]
    /\ signedPackages' = [s \in Slots |-> Unset]
    /\ guardianAddr' = Unset
    /\ signedPrice' = Unset
    /\ ret' = NoCall

(***************************************************************************)
(* Plaintext inputs.                                                       *)
(***************************************************************************)
BTC == <<66, 84, 67>>
ETH == <<69, 84, 72>>

DataPointInputs ==
    { [data_feed_id |-> BTC, value |-> 20000],
      [data_feed_id |-> ETH, value |-> 1000] }

TimestampInputs == { 1654353400 }

SeqsUpTo(S, n) == UNION { [1..k -> S] : k \in 0..n }

MaxBarePoints == 1      \* data points allocated on their own per construction pass

\* the data point allocated on its own: the tests' BTC at 20000
BarePointInputs == { [data_feed_id |-> BTC, value |-> 20000] }

DataPackageInputs ==
    { [data_points |-> pts, timestamp |-> t] :
          pts \in SeqsUpTo(DataPointInputs, MaxDataPoints), t \in TimestampInputs }

(***************************************************************************)
(* Operations on data packages.                                            *)
(***************************************************************************)
\* let point = CircuitDataPoint::from_witness(cs, witness)?
DataPointFromWitness(witness) ==
    /\ Len(dataPoints) < MaxBarePoints
    /\ LET r == CircuitDataPoint_from_witness(witness)
       IN  /\ cs' = cs \o r.calls
           /\ dataPoints' = Append(dataPoints, [witness |-> witness, v |-> r.v])
    /\ UNCHANGED <<guardianAddr, dataPackages, serialized, hashes, signedPackages,
                   signedPrice, ret>>

\* let p = CircuitDataPackage::from_witness(cs, w)?
DataPackageFromWitness(slot, w) ==
    /\ ~dataPackages[slot].set
    /\ LET r == CircuitDataPackage_from_witness(w)
       IN  /\ cs' = cs \o r.calls
           /\ dataPackages' =
                  [dataPackages EXCEPT ![slot] = [set |-> TRUE, witness |-> w, v |-> r.v]]
    /\ UNCHANGED <<dataPoints, guardianAddr, serialized, hashes, signedPackages,
                   signedPrice, ret>>

\* p.serialize()?
Serialize(slot) ==
    /\ dataPackages[slot].set
    /\ ~serialized[slot].set
    /\ serialized' =
           [serialized EXCEPT ![slot] =
               [set |-> TRUE, bytes |-> CircuitDataPackage_serialize(dataPackages[slot].v)]]
    /\ UNCHANGED <<dataPoints, guardianAddr, cs, dataPackages, hashes,
                   signedPackages, signedPrice, ret>>

\* p.keccak256_hash(cs)?
Keccak256Hash(slot) ==
    /\ dataPackages[slot].set
    /\ ~hashes[slot].set
    /\ LET r == CircuitDataPackage_keccak256_hash(dataPackages[slot].v)
       IN  /\ cs' = cs \o r.calls
           /\ hashes' = [hashes EXCEPT ![slot] = [set |-> TRUE, bytes |-> r.v]]
    /\ UNCHANGED <<dataPoints, guardianAddr, dataPackages, serialized,
                   signedPackages, signedPrice, ret>>

NextPkg ==
    \/ NewConstraintSystem
    \/ \E witness \in BarePointInputs : DataPointFromWitness(witness)
    \/ \E slot \in Slots, w \in DataPackageInputs : DataPackageFromWitness(slot, w)
    \/ \E slot \in Slots : Serialize(slot)
    \/ \E slot \in Slots : Keccak256Hash(slot)

SpecPkg == Init /\ [][NextPkg]_vars

(***************************************************************************)
(* Claims about data packages.                                             *)
(***************************************************************************)
PointBytes == FEED_ID_BS + DEFAULT_NUM_VALUE_BS

\* b is  concat(feed_id || value for each data point of p, in order)
\*       || timestamp || value byte width || data point count
IsWireLayout(b, p) ==
    LET n    == Len(p.data_points)
        base == n * PointBytes
    IN  /\ Len(b) = base + TIMESTAMP_BS + DATA_POINT_VALUE_BYTE_SIZE_BS
                         + DATA_POINTS_COUNT_BS
        /\ \A i \in 1..n :
              /\ SubSeq(b, (i - 1) * PointBytes + 1, (i - 1) * PointBytes + FEED_ID_BS)
                     = p.data_points[i].data_feed_id
              /\ SubSeq(b, (i - 1) * PointBytes + FEED_ID_BS + 1, i * PointBytes)
                     = p.data_points[i].value
        /\ SubSeq(b, base + 1, base + TIMESTAMP_BS) = p.timestamp
        /\ SubSeq(b, base + TIMESTAMP_BS + 1,
                     base + TIMESTAMP_BS + DATA_POINT_VALUE_BYTE_SIZE_BS)
               = p.default_data_point_value_byte_size
        /\ SubSeq(b, base + TIMESTAMP_BS + DATA_POINT_VALUE_BYTE_SIZE_BS + 1, Len(b))
               = p.data_points_count

\* C1: serialize returns exactly the data points in package order, then the
\* timestamp, then the value byte width, then the data point count, and
\* nothing else.
C1_SerializeLayout ==
    \A slot \in Slots :
        serialized[slot].set => IsWireLayout(serialized[slot].bytes, dataPackages[slot].v)

C1_Witness ==
    \E slot \in Slots :
        /\ serialized[slot].set
        /\ Len(dataPackages[slot].v.data_points) >= 2
        /\ dataPackages[slot].v.data_points[1] # dataPackages[slot].v.data_points[2]

IsPermutation(a, b) ==
    /\ Len(a) = Len(b)
    /\ \A x \in {a[i] : i \in 1..Len(a)} \cup {b[i] : i \in 1..Len(b)} :
           Cardinality({i \in 1..Len(a) : a[i] = x})
               = Cardinality({i \in 1..Len(b) : b[i] = x})

SamePackagePermuted(s, t) ==
    /\ dataPackages[s].set
    /\ dataPackages[t].set
    /\ dataPackages[s].witness.timestamp = dataPackages[t].witness.timestamp
    /\ IsPermutation(dataPackages[s].witness.data_points,
                     dataPackages[t].witness.data_points)

\* the data points of p are laid out in non-decreasing (feed id, value) order
InCanonicalOrder(p) ==
    \A i \in 1..(Len(p.data_points) - 1) :
        ~BytesLess(CircuitDataPoint_serialize(p.data_points[i + 1]),
                   CircuitDataPoint_serialize(p.data_points[i]))

\* C6: two packages built from permutations of the same data points
\* serialize to the same bytes and hash to the same digest, the data points
\* being laid out in canonical order whatever order they were supplied in.
C6_PermutationInvariant ==
    \A s \in Slots, t \in Slots :
        SamePackagePermuted(s, t) =>
            /\ InCanonicalOrder(dataPackages[s].v)
            /\ (serialized[s].set /\ serialized[t].set)
                   => serialized[s].bytes = serialized[t].bytes
            /\ (hashes[s].set /\ hashes[t].set) => hashes[s].bytes = hashes[t].bytes

C6_Witness ==
    \E s \in Slots, t \in Slots :
        /\ SamePackagePermuted(s, t)
        /\ dataPackages[s].witness.data_points # dataPackages[t].witness.data_points
        /\ serialized[s].set /\ serialized[t].set
        /\ hashes[s].set /\ hashes[t].set

(***************************************************************************)
(* Operations on signed data packages.                                     *)
(***************************************************************************)
MaxChecks == 1          \* calls of check_by_address(es) per construction pass

RInputs == { Zeros(32), BeBytesFixed(39633, 32) }
SInputs == { BeBytesFixed(13261, 32) }
RecoveryIdInputs == { 0, 1, 2, 27, 28, 29 }

SignatureInputs ==
    { r \o s \o <<v>> : r \in RInputs, s \in SInputs, v \in RecoveryIdInputs }

SignedPackageInputs ==
    { w \in DataPackageInputs :
          Len(w.data_points) = 1 /\ w.data_points[1].value = 20000 }

RECURSIVE CallsOf(_, _)
CallsOf(log, op) ==
    IF log = <<>> THEN 0
    ELSE (IF Head(log).op = op THEN 1 ELSE 0) + CallsOf(Tail(log), op)

\* the address of the key that signed self, as the recovery gadget sees it
RecoveredPoint(self) ==
    EcRecoverPoint(self.signature,
                   DigestBytes(CircuitDataPackage_serialize(self.data_package)))

RecoveredAddress(self) == PubkeyAddress(RecoveredPoint(self).x, RecoveredPoint(self).y)

OtherGuardian == BeBytesFixed(4660, ADDRESS_BS)

GuardianInputs(self) ==
    { RecoveredAddress(self), PubkeyAddress(Zeros(32), Zeros(32)), OtherGuardian }

\* the guardian addresses supplied: the signer of each signed package, the
\* address a failed recovery yields, and an address nobody signs with
GuardianAddressInputs ==
    UNION { GuardianInputs(CircuitSignedDataPackage_from_witness(w, sig, FALSE).v) :
                w \in SignedPackageInputs, sig \in SignatureInputs }

\* let sp = CircuitSignedDataPackage::from_witness(cs, data_package, signature)?
SignedFromWitness(slot, w, signature, sig_fails) ==
    /\ ~Aborted
    /\ ~signedPackages[slot].set
    /\ LET r == CircuitSignedDataPackage_from_witness(w, signature, sig_fails)
       IN  /\ cs' = cs \o r.calls
           /\ signedPackages' =
                  IF r.ok
                  THEN [signedPackages EXCEPT ![slot] =
                           [set |-> TRUE,
                            witness |-> [data_package |-> w, signature |-> signature],
                            v |-> r.v]]
                  ELSE signedPackages
           /\ ret' = [fn |-> "CircuitSignedDataPackage::from_witness",
                      slot |-> slot, ok |-> r.ok]
    /\ UNCHANGED <<dataPoints, guardianAddr, dataPackages, serialized, hashes,
                   signedPrice>>

\* let guardian = Address::from_address_wtiness(cs, &address)?
GuardianFromWitness(address, fails) ==
    /\ ~Aborted
    /\ ~guardianAddr.set
    /\ LET r == Address_from_address_wtiness(address, fails)
       IN  /\ cs' = cs \o r.calls
           /\ guardianAddr' = IF r.ok THEN [set |-> TRUE, v |-> r.v] ELSE guardianAddr
           /\ ret' = [fn |-> "Address::from_address_wtiness", ok |-> r.ok]
    /\ UNCHANGED <<dataPoints, dataPackages, serialized, hashes, signedPackages,
                   signedPrice>>

\* let (successful, pubkey) = sp.ecrecover(cs)?
Ecrecover(slot) ==
    /\ ~Aborted
    /\ signedPackages[slot].set
    /\ CallsOf(cs, "Signature::ecrecover") < MaxChecks
    /\ LET r == CircuitSignedDataPackage_ecrecover(signedPackages[slot].v)
       IN  /\ cs' = cs \o r.calls
           /\ ret' = [fn |-> "ecrecover", slot |-> slot, ok |-> r.ok, v |-> r.v]
    /\ UNCHANGED <<dataPoints, guardianAddr, dataPackages, serialized, hashes,
                   signedPackages, signedPrice>>

\* sp.check_by_address(cs, &guardian)?
CheckByAddress(slot) ==
    /\ ~Aborted
    /\ signedPackages[slot].set
    /\ guardianAddr.set
    /\ CallsOf(cs, "Address::equals") < MaxChecks
    /\ LET r == CircuitSignedDataPackage_check_by_address(signedPackages[slot].v,
                                                          guardianAddr.v)
       IN  /\ cs' = cs \o r.calls
           /\ ret' = [fn |-> "check_by_address", slot |-> slot,
                      guardian |-> guardianAddr.v, ok |-> r.ok, v |-> r.v]
    /\ UNCHANGED <<dataPoints, guardianAddr, dataPackages, serialized, hashes,
                   signedPackages, signedPrice>>

NextSig ==
    \/ NewConstraintSystem
    \/ \E slot \in Slots, w \in SignedPackageInputs, sig \in SignatureInputs,
          sig_fails \in BOOLEAN :
           SignedFromWitness(slot, w, sig, sig_fails)
    \/ \E address \in GuardianAddressInputs, fails \in BOOLEAN :
           GuardianFromWitness(address, fails)
    \/ \E slot \in Slots : Ecrecover(slot)
    \/ \E slot \in Slots : CheckByAddress(slot)

SpecSig == Init /\ [][NextSig]_vars

(***************************************************************************)
(* Claims about signed data packages.                                      *)
(***************************************************************************)
Checked == ret.fn = "check_by_address"

\* C2: check_by_address returns Ok(b) where b is true exactly when the
\* recovery over the package digest succeeded and the address of the
\* recovered key is the guardian; a wrong signer or a failed recovery gives
\* Ok(false), never an error.
C2_CheckByAddress ==
    Checked =>
        LET self == signedPackages[ret.slot].v
        IN  /\ ret.ok
            /\ ret.v = (RecoveredPoint(self).successful
                            /\ RecoveredAddress(self) = ret.guardian)

\* a failed recovery checked against the address the failed recovery yields
C2_Witness ==
    /\ Checked
    /\ ~RecoveredPoint(signedPackages[ret.slot].v).successful
    /\ RecoveredAddress(signedPackages[ret.slot].v) = ret.guardian
    /\ ret.ok /\ ~ret.v

C2_WitnessWrongSigner ==
    /\ Checked
    /\ RecoveredPoint(signedPackages[ret.slot].v).successful
    /\ RecoveredAddress(signedPackages[ret.slot].v) # ret.guardian
    /\ ret.ok /\ ~ret.v

C2_WitnessValid == Checked /\ ret.ok /\ ret.v

\* C4: the signature is allocated with its recovery id normalised: 27 becomes
\* 0, 28 becomes 1, 0 and 1 stay, and r and s are the supplied bytes 0..63.
C4_RecoveryIdNormalized ==
    \A slot \in Slots :
        signedPackages[slot].set =>
            LET supplied  == signedPackages[slot].witness.signature
                allocated == signedPackages[slot].v.signature
            IN  /\ supplied[SIGNATURE_BS] = 27 => allocated.v = 0
                /\ supplied[SIGNATURE_BS] = 28 => allocated.v = 1
                /\ supplied[SIGNATURE_BS] \in {0, 1}
                       => allocated.v = supplied[SIGNATURE_BS]
                /\ allocated.r \o allocated.s = SubSeq(supplied, 1, SIGNATURE_BS - 1)

C4_Witness ==
    \E s \in Slots, t \in Slots :
        /\ signedPackages[s].set
        /\ signedPackages[s].witness.signature[SIGNATURE_BS] = 27
        /\ signedPackages[t].set
        /\ signedPackages[t].witness.signature[SIGNATURE_BS] = 1

\* two signed packages over the same plaintext package whose signatures
\* differ only in the trailing byte, a in one and b in the other
DifferOnlyInTrailingByte(s, t, a, b) ==
    /\ signedPackages[s].set
    /\ signedPackages[t].set
    /\ signedPackages[s].witness.data_package = signedPackages[t].witness.data_package
    /\ SubSeq(signedPackages[s].witness.signature, 1, SIGNATURE_BS - 1)
           = SubSeq(signedPackages[t].witness.signature, 1, SIGNATURE_BS - 1)
    /\ signedPackages[s].witness.signature[SIGNATURE_BS] = a
    /\ signedPackages[t].witness.signature[SIGNATURE_BS] = b

SameRecovery(s, t) ==
    /\ signedPackages[s].v.signature.v = signedPackages[t].v.signature.v
    /\ RecoveredAddress(signedPackages[s].v) = RecoveredAddress(signedPackages[t].v)

\* C5 as stated: trailing bytes 27 and 28 reach the recovery gadget as the
\* same recovery id and recover to the same address.
C5_Original_27_28_SameRecovery ==
    \A s \in Slots, t \in Slots :
        DifferOnlyInTrailingByte(s, t, 27, 28) => SameRecovery(s, t)

\* C5 amended: a trailing byte v in {0, 1} and the trailing byte v + 27
\* reach the recovery gadget as the same recovery id and recover to the
\* same address.
C5_SameIdSameRecovery ==
    \A s \in Slots, t \in Slots :
        \A v \in {0, 1} :
            DifferOnlyInTrailingByte(s, t, v, v + 27) => SameRecovery(s, t)

C5_Witness ==
    \E s \in Slots, t \in Slots :
        /\ DifferOnlyInTrailingByte(s, t, 1, 28)
        /\ RecoveredPoint(signedPackages[s].v).successful

(***************************************************************************)
(* Operations on a signed price.                                           *)
(***************************************************************************)
PricePackageInput == CHOOSE w \in SignedPackageInputs : w.data_points[1].data_feed_id = BTC

PriceSignatureInputs ==
    { sig \in SignatureInputs :
          SubSeq(sig, 1, 32) # Zeros(32) /\ sig[SIGNATURE_BS] \in {2, 27} }

\* one witness triple: (data_package, signature, guardian)
TripleInputs ==
    UNION { { [data_package |-> PricePackageInput, signature |-> sig, guardian |-> g] :
                g \in GuardianInputs(
                         CircuitSignedDataPackage_from_witness(
                             PricePackageInput, sig, FALSE).v) } :
            sig \in PriceSignatureInputs }

Indices == 1..NUM_SIGNATURES_TO_VERIFY

FaultInputs == [sig : 0..NUM_SIGNATURES_TO_VERIFY, guardian : 0..NUM_SIGNATURES_TO_VERIFY]

\* let price = CircuitSignedPrice::from_witness(cs, witness)?
PriceFromWitness(witness, faults) ==
    /\ ~Aborted
    /\ ~signedPrice.set
    /\ LET r == CircuitSignedPrice_from_witness(witness, faults)
       IN  /\ cs' = cs \o r.calls
           /\ signedPrice' = IF r.ok THEN [set |-> TRUE, v |-> r.v] ELSE signedPrice
           /\ ret' = [fn |-> "CircuitSignedPrice::from_witness", ok |-> r.ok,
                      faults |-> faults, before |-> Len(cs),
                      err |-> IF r.ok THEN "" ELSE r.v]
    /\ UNCHANGED <<dataPoints, guardianAddr, dataPackages, serialized, hashes,
                   signedPackages>>

\* price.check_by_addresses(cs)?
CheckByAddresses ==
    /\ ~Aborted
    /\ signedPrice.set
    /\ CallsOf(cs, "Address::equals") < MaxChecks * NUM_SIGNATURES_TO_VERIFY
    /\ LET r == CircuitSignedPrice_check_by_addresses(signedPrice.v)
       IN  /\ cs' = cs \o r.calls
           /\ ret' = [fn |-> "check_by_addresses", ok |-> r.ok, v |-> r.v,
                      visited |-> r.visited, before |-> Len(cs)]
    /\ UNCHANGED <<dataPoints, guardianAddr, dataPackages, serialized, hashes,
                   signedPackages, signedPrice>>

NextPrice ==
    \/ NewConstraintSystem
    \/ \E witness \in [Indices -> TripleInputs], faults \in FaultInputs :
           PriceFromWitness(witness, faults)
    \/ CheckByAddresses

SpecPrice == Init /\ [][NextPrice]_vars

(***************************************************************************)
(* Claims about a signed price.                                            *)
(***************************************************************************)
\* signed package self validates against guardian
Validates(self, guardian) ==
    RecoveredPoint(self).successful /\ RecoveredAddress(self) = guardian

PriceChecked == ret.fn = "check_by_addresses"

ValidAt(i) == Validates(signedPrice.v.signed_data_packages[i], signedPrice.v.guardians[i])

\* C3: check_by_addresses returns true exactly when every signed package i
\* validates against the guardian at the same index i.
C3_UnanimousQuorum ==
    PriceChecked => (ret.ok /\ ret.v = (\A i \in Indices : ValidAt(i)))

\* exactly one per-signer bit is false, the last one, and the guardians differ
C3_Witness ==
    /\ PriceChecked
    /\ ~ValidAt(NUM_SIGNATURES_TO_VERIFY)
    /\ \A i \in Indices \ {NUM_SIGNATURES_TO_VERIFY} : ValidAt(i)
    /\ ~ret.v

C3_WitnessAllValid == PriceChecked /\ ret.v /\ \A i \in Indices : ValidAt(i)

\* the gadget calls one per-signer check and its fold add to cs
PerSignerCalls(self) ==
    << Call("keccak256::digest", Len(CircuitDataPackage_serialize(self.data_package))),
       Call("UInt256::from_be_bytes_fixed", 32),
       Call("Signature::ecrecover", 1),
       Call("UInt256::into_be_bytes", 32),
       Call("UInt256::into_be_bytes", 32),
       Call("Address::from_pubkey", 64),
       Call("Address::equals", ADDRESS_BS),
       Call("Boolean::and", 2),
       Call("Boolean::and", 2) >>

\* C10: check_by_addresses visits every index once, in order 0..N-1, and
\* adds the same calls to cs whatever the per-signer bits are.
C10_NoShortCircuit ==
    PriceChecked =>
        /\ ret.visited = [i \in Indices |-> i]
        /\ SubSeq(cs, ret.before + 1, Len(cs))
               = Flatten([i \in Indices |->
                              PerSignerCalls(signedPrice.v.signed_data_packages[i])])

\* the first per-signer bit is false and the check went on
C10_Witness ==
    /\ PriceChecked
    /\ ~ValidAt(1)
    /\ ValidAt(NUM_SIGNATURES_TO_VERIFY)
    /\ Len(ret.visited) = NUM_SIGNATURES_TO_VERIFY

PriceBuilt == ret.fn = "CircuitSignedPrice::from_witness"

\* the signed package of triple i is the first allocation to fail
SignedPackageFailsFirst(i) ==
    /\ PriceBuilt
    /\ ret.faults.sig = i
    /\ ret.faults.guardian = 0 \/ ret.faults.guardian >= i

\* C9: when allocating the signed package of triple i fails, nothing more is
\* allocated (no guardian address of triple i) and the error of that step is
\* returned.
C9_AbortsAtFirstFailure ==
    \A i \in Indices :
        SignedPackageFailsFirst(i) =>
            /\ ~ret.ok
            /\ ret.err = "Signature::from_bytes_witness"
            /\ CallsOf(cs, "Address::from_address_wtiness") = i - 1
            /\ CallsOf(cs, "Signature::from_bytes_witness") = i - 1

\* what the code does: the failure is returned after the guardian address of
\* the same triple has been allocated, or that allocation's error instead
C9_Observed ==
    \A i \in Indices :
        SignedPackageFailsFirst(i) =>
            /\ ~ret.ok
            /\ CallsOf(cs, "Signature::from_bytes_witness") = i - 1
            /\ IF ret.faults.guardian = i
               THEN /\ ret.err = "Address::from_address_wtiness"
                    /\ CallsOf(cs, "Address::from_address_wtiness") = i - 1
               ELSE /\ ret.err = "Signature::from_bytes_witness"
                    /\ CallsOf(cs, "Address::from_address_wtiness") = i

(***************************************************************************)
(* Calls of the numeric gadgets, each on a fresh constraint system.        *)
(***************************************************************************)
MaxBytesLen == 254      \* length of the byte strings given to bytes_be_to_num
MaxStrLen == 3          \* length of the decimal strings
MaxHexLen == 66         \* length of the hex strings

ByteInputs == { 0, 1, 49, 255 }

\* a lead byte followed by a repeated byte
ByteStringInputs ==
    { [i \in 1..len |-> IF i = 1 THEN lead ELSE fill] :
          len \in 0..MaxBytesLen, lead \in ByteInputs, fill \in {0, 255} }

DecimalCharInputs == { "0", "1", "9", "a", "_", "+", "-" }

DecimalStringInputs == SeqsUpTo(DecimalCharInputs, MaxStrLen)

HexCharInputs == { "0", "9", "a", "F", "g" }

HexStringInputs ==
    { [i \in 1..len |-> IF i = 1 THEN lead ELSE fill] :
          len \in 0..MaxHexLen, lead \in HexCharInputs, fill \in HexCharInputs }

Returned(fn, input, r) ==
    [fn |-> fn, input |-> input, ok |-> r.ok, status |-> r.status, v |-> r.v]

BytesBeToNum(hash, build) ==
    /\ cs = <<>> /\ ~Aborted
    /\ LET r == bytes_be_to_num(hash, build)
       IN  cs' = cs \o r.calls /\ ret' = Returned("bytes_be_to_num", hash, r)
    /\ UNCHANGED <<dataPoints, guardianAddr, dataPackages, serialized, hashes,
                   signedPackages, signedPrice>>

Uint256AndU8ChunksFromStr(str) ==
    /\ cs = <<>> /\ ~Aborted
    /\ LET r == uint256_and_u8_chunks_from_str(str)
       IN  cs' = cs \o r.calls /\ ret' = Returned("uint256_and_u8_chunks_from_str", str, r)
    /\ UNCHANGED <<dataPoints, guardianAddr, dataPackages, serialized, hashes,
                   signedPackages, signedPrice>>

Uint256FromStr(str) ==
    /\ cs = <<>> /\ ~Aborted
    /\ LET r == uint256_from_str(str)
       IN  cs' = cs \o r.calls /\ ret' = Returned("uint256_from_str", str, r)
    /\ UNCHANGED <<dataPoints, guardianAddr, dataPackages, serialized, hashes,
                   signedPackages, signedPrice>>

Uint256FromBeHexStr(str) ==
    /\ cs = <<>> /\ ~Aborted
    /\ LET r == uint256_from_be_hex_str(str)
       IN  cs' = cs \o r.calls /\ ret' = Returned("uint256_from_be_hex_str", str, r)
    /\ UNCHANGED <<dataPoints, guardianAddr, dataPackages, serialized, hashes,
                   signedPackages, signedPrice>>

NextUtil ==
    \/ NewConstraintSystem
    \/ \E hash \in ByteStringInputs, build \in {"debug", "release"} :
           BytesBeToNum(hash, build)
    \/ \E str \in HexStringInputs : Uint256FromBeHexStr(str)
    \/ \E str \in DecimalStringInputs : Uint256AndU8ChunksFromStr(str)
    \/ \E str \in DecimalStringInputs : Uint256FromStr(str)

SpecUtil == Init /\ [][NextUtil]_vars

(***************************************************************************)
(* Claims about the numeric gadgets.                                       *)
(***************************************************************************)
\* the number of bits of the most significant non-zero byte b
ByteBits(b) == CHOOSE k \in 0..8 : b < 2 ^ k /\ (k = 0 \/ b >= 2 ^ (k - 1))

\* the bit length of the integer a byte string holds: leading zero bits are
\* not counted
BitLength(bytes) ==
    LET nonzero == {i \in 1..Len(bytes) : bytes[i] # 0}
    IN  IF nonzero = {} THEN 0
        ELSE LET first == CHOOSE i \in nonzero : \A j \in nonzero : i <= j
             IN  8 * (Len(bytes) - first) + ByteBits(bytes[first])

\* C7: bytes_be_to_num fails for every input whose bit length exceeds the
\* field's CAPACITY, and for every input it accepts it returns the integer
\* value of the input left-padded to 32 bytes, not a wrapped one.
C7_FailsBeyondCapacity ==
    ret.fn = "bytes_be_to_num" =>
        /\ BitLength(ret.input) > FrCapacity => ret.status = "Panic"
        /\ ret.status = "Ok" => ret.v = Zeros(32 - Len(ret.input)) \o ret.input

\* what the code does: it fails from 33 bytes on, and a 32-byte input is
\* returned reduced modulo the field
C7_Observed ==
    ret.fn = "bytes_be_to_num" =>
        /\ ret.status = "Panic" <=> Len(ret.input) > 32
        /\ ret.status = "Ok" /\ Len(ret.input) < 32
               => ret.v = Zeros(32 - Len(ret.input)) \o ret.input
        /\ ret.status = "Ok" /\ Len(ret.input) = 32 => BytesLess(ret.v, FrModulus)

C7_ObservedWrapped ==
    /\ ret.fn = "bytes_be_to_num"
    /\ ret.status = "Ok"
    /\ ret.v # Zeros(32 - Len(ret.input)) \o ret.input

HasNonDigit(str) == \E i \in 1..Len(str) : str[i] \notin DecimalDigits

NotHex32(str) == Len(str) # 64 \/ \E i \in 1..Len(str) : str[i] \notin HexDigits

\* C8: a decimal string with a non-digit character, and a hex string that is
\* not valid hex or not 32 bytes, are returned as Err and allocate nothing.
C8_MalformedIsErr ==
    /\ ret.fn = "uint256_and_u8_chunks_from_str" /\ HasNonDigit(ret.input)
           => ret.status = "Err" /\ cs = <<>>
    /\ ret.fn = "uint256_from_be_hex_str" /\ NotHex32(ret.input)
           => ret.status = "Err" /\ cs = <<>>

\* what the code does: malformed hex panics; a decimal string is refused
\* with Err unless its non-digits are a leading `+` or `_` separators
C8_Observed ==
    /\ ret.fn = "uint256_from_be_hex_str"
           => /\ ret.status = (IF NotHex32(ret.input) THEN "Panic" ELSE "Ok")
              /\ NotHex32(ret.input) => cs = <<>>
    /\ ret.fn = "uint256_and_u8_chunks_from_str" /\ HasNonDigit(ret.input)
           => \/ ret.status = "Err" /\ cs = <<>>
              \/ /\ ret.status = "Ok"
                 /\ \A i \in 1..Len(ret.input) :
                        ret.input[i] \in DecimalDigits \cup {"_", "+"}

====
